---- MODULE Spec2Model ----
(***************************************************************************)
(* Model of index.py: the F1 notification bot.                             *)
(*                                                                         *)
(* The job store is the SQLAlchemyJobStore handed to the AsyncIOScheduler  *)
(* in main(); it survives a process crash.  Everything else (the asyncio   *)
(* tasks, the position of a running check_for_races) lives in the process  *)
(* and is lost with it.                                                    *)
(*                                                                         *)
(* The callbacks run on one event loop.  check_for_races never awaits      *)
(* anything that suspends it (requests.get blocks, add_job is synchronous),*)
(* so no other callback runs between its steps; the wall clock does move.  *)
(* datetime.now() is read at lines 93, 109 and 141 separately, so the      *)
(* clock may advance between any two steps of a run.                       *)
(*                                                                         *)
(* Time is counted in hours and advances in steps of CHECK_INTERVAL_HOURS, *)
(* which divides NOTIFICATION_LEAD_HOURS.                                  *)
(***************************************************************************)
EXTENDS Integers, Sequences, FiniteSets, Bags, TLC

VARIABLES
    now,        \* datetime.now(), in hours
    up,         \* the process is running (main() has been entered)
    jobstore,   \* bag of the job rows of the persistent job store
    tasks,      \* bag of the notification jobs handed to the executor, not yet run
    pc,         \* position of the running check_for_races, "idle" if none
    queue,      \* <<event name, session>> pairs the run has still to visit
    nuevas,     \* nuevas_sesiones_programadas of the run
    api,        \* SpecFixed: the one answer the Event Source gives
    sent,       \* history: per job id, the send_message calls made for it
    watched,    \* history: one send_message call of the past, <<>> if none is kept
    done,       \* history: a check_for_races has reached its report
    logged      \* history: what the last start of a run or failed add_job logged

vars == <<now, up, jobstore, tasks, pc, queue, nuevas, api, sent, watched, done,
          logged>>

-----------------------------------------------------------------------------
(* Bounds of the model *)

MaxTime == 12        \* the clock stops here
MaxLoopJobs == 2     \* periodic jobs the job store may hold
MaxKicks == 1        \* jobs of /start the job store may hold

-----------------------------------------------------------------------------
(* Configuration, lines 24-38 *)

NOTIFICATION_LEAD_HOURS == 8
CHECK_INTERVAL_HOURS == 4
F1_CATEGORY_ID == "f1"

MsPerHour == 1000 * 3600

-----------------------------------------------------------------------------
(* The Event Source: what requests.get(API_URL) may answer *)

SessionIds == {"s1", "s2"}

\* The sessions of the answers.  Session s1 is reported with the same start
\* in every answer; the start and the name of s2 change between answers.
\* startAt is <<ms>>, a number of milliseconds; <<>> is a startAt that is no
\* number, and "" a missing id.
ApiSessions ==
    { [id |-> "s1", name |-> "FP1", startAt |-> <<12 * MsPerHour>>],
      [id |-> "s2", name |-> "Sprint", startAt |-> <<8 * MsPerHour>>],
      [id |-> "s2", name |-> "Race", startAt |-> <<12 * MsPerHour>>] }

\* The schedules of a race: no session, one, or two.
ApiSchedules ==
    {<<>>} \cup { <<a>> : a \in ApiSessions }
           \cup { <<a, b>> : a \in ApiSessions, b \in ApiSessions }

ApiRaces ==
    { [completeName |-> "GP", categoryId |-> c, schedules |-> sch] :
        c \in {F1_CATEGORY_ID, "f2"}, sch \in ApiSchedules }

\* The 'races' list of an answer.
ApiResponses == {<<>>} \cup { <<r>> : r \in ApiRaces }

\* Answers of an Event Source that also gives s2 another name at the same
\* start, a session with a startAt that is no number, and one without id.
ApiSessionsWide ==
    ApiSessions \cup
    { [id |-> "s2", name |-> "Carrera", startAt |-> <<12 * MsPerHour>>],
      [id |-> "s1", name |-> "FP1", startAt |-> <<>>],
      [id |-> "", name |-> "FP2", startAt |-> <<12 * MsPerHour>>] }

ApiResponsesWide ==
    {<<>>} \cup
    { <<[completeName |-> "GP", categoryId |-> F1_CATEGORY_ID, schedules |-> sch]>> :
        sch \in { <<a>> : a \in ApiSessionsWide }
                 \cup { <<a, b>> : a \in ApiSessionsWide, b \in ApiSessionsWide } }

\* Line 62: keep the races of the configured category.
FiltrarCategoria(carreras) ==
    SelectSeq(carreras, LAMBDA c : c.categoryId = F1_CATEGORY_ID)

\* What obtener_carreras_f1 may return when the Event Source answers one of
\* `responses`: the filtered races, or [] when requests raises (line 65).
obtener_carreras_f1(responses) ==
    { FiltrarCategoria(resp) : resp \in responses } \cup {<<>>}

\* The returns of obtener_carreras_f1 over the answers of the Event Source.
Retornos == obtener_carreras_f1(ApiResponses)

RetornosWide == obtener_carreras_f1(ApiResponsesWide)

-----------------------------------------------------------------------------
(* Times and texts *)

\* timedelta(hours=h), in clock units.
timedelta(h) == h

\* Lines 93, 109, 141: fecha > datetime.now().
es_futura_o_ahora(fecha, ahora) == fecha >= ahora

es_futura(fecha, ahora) == fecha > ahora

\* Lines 88-89 and 138: startAt / 1000, then datetime.fromtimestamp.
fecha_hora_inicio(sesion) == sesion.startAt[1] \div MsPerHour

fecha_aviso_despues(sesion) ==
    fecha_hora_inicio(sesion) + timedelta(NOTIFICATION_LEAD_HOURS)

\* Line 92.
fecha_aviso_previo(sesion) ==
    fecha_hora_inicio(sesion) - timedelta(NOTIFICATION_LEAD_HOURS)

\* strftime('%H:%M hs del %d/%m'): hour of the day and day, the year is dropped.
strftime(t) == <<t % 24, (t \div 24) % 365>>

\* Lines 94-97.
mensaje_previo(sesion, nombre_evento) ==
    <<"previo", sesion.name, nombre_evento, NOTIFICATION_LEAD_HOURS,
      strftime(fecha_hora_inicio(sesion))>>

\* Line 110.
mensaje_inicio(sesion, nombre_evento) ==
    <<"inicio", sesion.name, nombre_evento>>

\* Line 103: f"{sesion_id}_channel_{NOTIFICATION_LEAD_HOURS}hr".
LeadId(sesion_id) == <<sesion_id, "channel", <<NOTIFICATION_LEAD_HOURS, "hr">> >>

\* Line 116: f"{sesion_id}_channel_start".
StartId(sesion_id) == <<sesion_id, "channel", <<"start">> >>

TriggerIds == { LeadId(i) : i \in SessionIds } \cup { StartId(i) : i \in SessionIds }

-----------------------------------------------------------------------------
(* The job store *)

DateJob(id, func, run_date, mensaje) ==
    [id |-> id, func |-> func, trigger |-> "date", run_date |-> run_date,
     mensaje |-> mensaje]

IntervalJob(id, func, run_date) ==
    [id |-> id, func |-> func, trigger |-> "interval", run_date |-> run_date,
     mensaje |-> <<>>]

Rows(store) == BagToSet(store)

\* Number of rows of the store with this id.
RowCount(store, id) ==
    LET same == { j \in Rows(store) : j.id = id }
        RECURSIVE Sum(_)
        Sum(S) == IF S = {} THEN 0
                  ELSE LET j == CHOOSE x \in S : TRUE
                       IN CopiesIn(j, store) + Sum(S \ {j})
    IN Sum(same)

\* A check of existence that finds nothing.
get_job_never(store, id) == FALSE

\* scheduler.get_job(id), line 143: is there a row with this id.
get_job(store, id) == \E j \in Rows(store) : j.id = id

\* The store without the rows of this id.
remove_job(store, id) ==
    LET keep == { j \in Rows(store) : j.id # id }
    IN [j \in keep |-> store[j]]

add_job_no_replace(store, job) == store (+) SetToBag({job})

\* scheduler.add_job(..., id=..., replace_existing=True), lines 98-106, 111-119.
add_job(store, job) == remove_job(store, job.id) (+) SetToBag({job})

\* add_job under a fresh uuid, as run_repeating and run_once do (lines 160, 186).
add_job_uuid(store, job) == store (+) SetToBag({job})

\* The notification jobs of the store: the triggers.
Triggers(store) == { j \in Rows(store) : j.func = "enviar_notificacion" }

due_one_step_early(store, t) ==
    { j \in Rows(store) : j.run_date <= t + CHECK_INTERVAL_HOURS }

\* The rows whose run date has come.
due(store, t) == { j \in Rows(store) : j.run_date <= t }

\* The row of the notice NOTIFICATION_LEAD_HOURS before the start, lines 98-106.
LeadJob(sesion, nombre_evento) ==
    DateJob(LeadId(sesion.id), "enviar_notificacion",
            fecha_aviso_previo(sesion), mensaje_previo(sesion, nombre_evento))

\* The row of the notice at the start, lines 111-119.
StartJob(sesion, nombre_evento) ==
    DateJob(StartId(sesion.id), "enviar_notificacion",
            fecha_hora_inicio(sesion), mensaje_inicio(sesion, nombre_evento))

\* Lines 91-106, with datetime.now() = t and a job store that works.
programar_aviso_previo(store, sesion, nombre_evento, t) ==
    IF es_futura(fecha_aviso_previo(sesion), t)
    THEN add_job(store, LeadJob(sesion, nombre_evento))
    ELSE store

\* The second add_job under the condition of the first.
programar_aviso_inicio_anidado(store, sesion, nombre_evento, t) ==
    IF es_futura(fecha_aviso_previo(sesion), t)
    THEN add_job(store, StartJob(sesion, nombre_evento))
    ELSE store

\* Lines 108-119, with datetime.now() = t and a job store that works.
programar_aviso_inicio(store, sesion, nombre_evento, t) ==
    IF es_futura(fecha_hora_inicio(sesion), t)
    THEN add_job(store, StartJob(sesion, nombre_evento))
    ELSE store

\* programar_avisos_para_sesion, lines 79-119: the clock reads t1 at line 93
\* and t2 at line 109.
programar_avisos_para_sesion(store, sesion, nombre_evento, t1, t2) ==
    programar_aviso_inicio(
        programar_aviso_previo(store, sesion, nombre_evento, t1),
        sesion, nombre_evento, t2)

-----------------------------------------------------------------------------
(* Initial state: main() has run once on an empty job store *)

\* Lines 186-190: run_repeating registers the periodic check_for_races job in
\* the scheduler, whose only job store is the persistent one.  The job id is
\* a fresh uuid: the rows of two periodic jobs differ by it alone and are
\* kept as copies of one row of the bag.
PeriodicJob(t) ==
    IntervalJob(<<"uuid", "Revision periodica de carreras">>, "check_for_races",
                t + timedelta(CHECK_INTERVAL_HOURS))

\* Line 160: run_once(check_for_races, 5); five seconds are less than one hour.
KickJob(t) ==
    DateJob(<<"uuid", "check_for_races">>, "check_for_races",
            t + (5 \div 3600), <<>>)

InitProgram ==
    /\ now = 0
    /\ up = TRUE
    /\ jobstore = SetToBag({PeriodicJob(0)})
    /\ tasks = EmptyBag
    /\ pc = "idle"
    /\ queue = <<>>
    /\ nuevas = 0
    /\ sent = [id \in TriggerIds |-> 0]
    /\ watched = <<>>
    /\ done = FALSE
    /\ logged = ""

Init ==
    /\ InitProgram
    /\ api = <<>>

-----------------------------------------------------------------------------
(* The clock and the process *)

Tick ==
    /\ now + CHECK_INTERVAL_HOURS <= MaxTime
    /\ now' = now + CHECK_INTERVAL_HOURS
    /\ UNCHANGED <<up, jobstore, tasks, pc, queue, nuevas, api, sent, watched, done, logged>>

\* The run is over, by its return or by an exception that leaves the coroutine.
EndRun ==
    /\ pc' = "idle"
    /\ queue' = <<>>
    /\ nuevas' = 0

Crash_memory_store ==
    /\ up
    /\ up' = FALSE
    /\ tasks' = EmptyBag
    /\ jobstore' = EmptyBag
    /\ EndRun
    /\ UNCHANGED <<now, api, sent, watched, done, logged>>

\* The process dies: the job store of lines 169-171 stays, the event loop and
\* its tasks go.
Crash ==
    /\ up
    /\ up' = FALSE
    /\ tasks' = EmptyBag
    /\ EndRun
    /\ UNCHANGED <<now, jobstore, api, sent, watched, done, logged>>

\* main(), lines 164-203, on the job store the last process left.
main ==
    /\ ~up
    /\ RowCount(jobstore, PeriodicJob(now).id) < MaxLoopJobs
    /\ up' = TRUE
    /\ jobstore' = add_job_uuid(jobstore, PeriodicJob(now))
    /\ UNCHANGED <<now, tasks, pc, queue, nuevas, api, sent, watched, done, logged>>

\* start_command, lines 154-160.
start_command ==
    /\ up
    /\ pc = "idle"
    /\ RowCount(jobstore, KickJob(now).id) < MaxKicks
    /\ jobstore' = add_job_uuid(jobstore, KickJob(now))
    /\ UNCHANGED <<now, up, tasks, pc, queue, nuevas, api, sent, watched, done, logged>>

-----------------------------------------------------------------------------
(* The scheduler *)

\* The next run of an interval job after t.
NextRun(j, t) ==
    j.run_date
      + ((t - j.run_date) \div timedelta(CHECK_INTERVAL_HOURS) + 1)
          * timedelta(CHECK_INTERVAL_HOURS)

Claim_remove(store, j, t) == store (-) SetToBag({j})

\* One copy of row j leaves the store: a date job is removed once it has been
\* handed to the executor, an interval job is moved to its next run.
Claim(store, j, t) ==
    IF j.trigger = "interval"
    THEN (store (-) SetToBag({j}))
           (+) SetToBag({[j EXCEPT !.run_date = NextRun(j, t)]})
    ELSE store (-) SetToBag({j})

ClaimTriggers_keep_rows(store, t) == store

\* The store once the notification jobs due at t have been handed over.
ClaimTriggers(store, t) ==
    LET d == due(store, t) \cap Triggers(store)
    IN [j \in Rows(store) \ d |-> store[j]]

\* The scheduler wakes up (the scheduler built at lines 169-179 and started
\* at line 193): every due notification job is handed to the executor,
\* which makes a task of the coroutine, and leaves the store in the same step.
Wakeup ==
    /\ up
    /\ pc = "idle"
    /\ due(jobstore, now) \cap Triggers(jobstore) # {}
    /\ tasks' = tasks (+) [j \in due(jobstore, now) \cap Triggers(jobstore)
                             |-> jobstore[j]]
    /\ jobstore' = ClaimTriggers(jobstore, now)
    /\ UNCHANGED <<now, up, pc, queue, nuevas, api, sent, watched, done, logged>>

TasksAfterSend_retry(ts, job, ok) ==
    IF ok THEN ts (-) SetToBag({job}) ELSE ts

\* Lines 73-77: the coroutine ends whether send_message raised or not.
TasksAfterSend(ts, job, ok) == ts (-) SetToBag({job})

\* enviar_notificacion, lines 69-77: one send_message call with the text the
\* job carries; an error of the call is logged and swallowed.
Enviar(job, ok) ==
    /\ up
    /\ pc = "idle"
    /\ job.func = "enviar_notificacion"
    /\ tasks' = TasksAfterSend(tasks, job, ok)
    /\ UNCHANGED <<now, up, jobstore, pc, queue, nuevas, api, done, logged>>

enviar_notificacion ==
    \E job \in BagToSet(tasks), ok \in BOOLEAN :
        /\ Enviar(job, ok)
        /\ UNCHANGED <<sent, watched>>

\* The same, counting the calls.
enviar_notificacion_sent ==
    \E job \in BagToSet(tasks), ok \in BOOLEAN :
        /\ Enviar(job, ok)
        /\ sent' = [sent EXCEPT ![job.id] = @ + 1]
        /\ UNCHANGED watched

\* The same, keeping the call or not: any one call of a run may be the one
\* that is kept, and it is kept for good.
enviar_notificacion_log ==
    \E job \in BagToSet(tasks), ok \in BOOLEAN :
        /\ Enviar(job, ok)
        /\ \/ UNCHANGED watched
           \/ /\ watched = <<>>
              /\ watched' = <<[job |-> job, ok |-> ok]>>
        /\ UNCHANGED sent

-----------------------------------------------------------------------------
(* check_for_races, lines 121-152, and programar_avisos_para_sesion, 79-119 *)

\* The nested loops of lines 134-136 visit the sessions in this order.
RECURSIVE Sesiones(_)
Sesiones(carreras) ==
    IF carreras = <<>> THEN <<>>
    ELSE LET c == Head(carreras)
         IN [k \in 1..Len(c.schedules) |-> <<c.completeName, c.schedules[k]>>]
              \o Sesiones(Tail(carreras))

\* Lines 126-133: the scheduler runs a due check_for_races job, the periodic
\* one or the one of /start, and obtener_carreras_f1 has returned carreras_f1.
Revisar(carreras_f1) ==
    /\ up
    /\ pc = "idle"
    /\ \E job \in due(jobstore, now) :
        /\ job.func = "check_for_races"
        /\ jobstore' = Claim(jobstore, job, now)
    /\ IF carreras_f1 = <<>>
       THEN EndRun
       ELSE /\ pc' = "loop"
            /\ queue' = Sesiones(carreras_f1)
            /\ nuevas' = 0
    /\ UNCHANGED <<now, up, tasks, api, sent, watched, done>>

\* The run with any of these returns of obtener_carreras_f1.
CheckForRaces(retornos) ==
    \E carreras_f1 \in retornos :
        /\ Revisar(carreras_f1)
        /\ UNCHANGED logged

\* What the start of a run logs last: line 64 and then 130 when the fetch
\* failed, line 130 when no race is left, line 126 when the loop is entered.
LineaDeRevision(falla, carreras_f1) ==
    IF falla THEN "api_error"
    ELSE IF carreras_f1 = <<>> THEN "no_races" ELSE "revisando"

\* The same run, the fetch failing or not, with the line it logs.
\* obtener_carreras_f1 with its outcome: <<TRUE, []>> when requests raised
\* (lines 63-65), <<FALSE, the filtered races>> when it did not (line 62).
obtener_carreras_f1_resultado(responses) ==
    {<<TRUE, <<>> >>} \cup { <<FALSE, FiltrarCategoria(resp)>> : resp \in responses }

\* The outcomes of obtener_carreras_f1 over the answers of the Event Source.
Resultados == obtener_carreras_f1_resultado(ApiResponses)

CheckForRacesLogged ==
    \E r \in Resultados :
        /\ Revisar(r[2])
        /\ logged' = LineaDeRevision(r[1], r[2])

RunCheck == CheckForRaces(Retornos)

\* Lines 136-145: the next session of the loop.  Line 138 raises on a startAt
\* that is not a number; the exception ends the run.
CheckSession ==
    /\ up
    /\ pc = "loop"
    /\ queue # <<>>
    /\ LET sesion == Head(queue)[2]
       IN IF sesion.startAt = <<>>
          THEN EndRun
          ELSE IF /\ sesion.id # ""
                  /\ es_futura(fecha_hora_inicio(sesion), now)
                  /\ ~get_job(jobstore, StartId(sesion.id))
               THEN /\ pc' = "lead"
                    /\ UNCHANGED <<queue, nuevas>>
               ELSE /\ queue' = Tail(queue)
                    /\ UNCHANGED <<pc, nuevas>>
    /\ UNCHANGED <<now, up, jobstore, tasks, api, sent, watched, done, logged>>

\* Lines 91-106: the first half of programar_avisos_para_sesion.  An error of
\* the job store leaves add_job as an exception, which ends the run.
\* ok: the job store works; ~ok: add_job of line 98 raises.
AvisoPrevio(ok) ==
    /\ up
    /\ pc = "lead"
    /\ LET nombre_evento == Head(queue)[1]
           sesion == Head(queue)[2]
       IN IF ok
          THEN /\ jobstore' = programar_aviso_previo(jobstore, sesion, nombre_evento, now)
               /\ pc' = "start"
               /\ UNCHANGED <<queue, nuevas>>
          ELSE /\ es_futura(fecha_aviso_previo(sesion), now)
               /\ EndRun
               /\ UNCHANGED jobstore
    /\ UNCHANGED <<now, up, tasks, api, sent, watched, done>>

ScheduleLead ==
    \E ok \in BOOLEAN :
        /\ AvisoPrevio(ok)
        /\ UNCHANGED logged

\* What the scheduler logs when the coroutine of a job ends by an exception.
LineaDeAviso(ok, antes) == IF ok THEN antes ELSE "store_error"

ScheduleLeadLogged ==
    \E ok \in BOOLEAN :
        /\ AvisoPrevio(ok)
        /\ logged' = LineaDeAviso(ok, logged)

\* Lines 108-119 and 147: the second half, then the count.
\* ok: the job store works; ~ok: add_job of line 111 raises.
AvisoInicio_swallow(ok) ==
    /\ up
    /\ pc = "start"
    /\ LET nombre_evento == Head(queue)[1]
           sesion == Head(queue)[2]
       IN /\ IF ok
             THEN jobstore' = programar_aviso_inicio(jobstore, sesion, nombre_evento, now)
             ELSE es_futura(fecha_hora_inicio(sesion), now) /\ UNCHANGED jobstore
          /\ pc' = "loop"
          /\ queue' = Tail(queue)
          /\ nuevas' = nuevas + 1
    /\ UNCHANGED <<now, up, tasks, api, sent, watched, done>>

AvisoInicio(ok) ==
    /\ up
    /\ pc = "start"
    /\ LET nombre_evento == Head(queue)[1]
           sesion == Head(queue)[2]
       IN IF ok
          THEN /\ jobstore' = programar_aviso_inicio(jobstore, sesion, nombre_evento, now)
               /\ pc' = "loop"
               /\ queue' = Tail(queue)
               /\ nuevas' = nuevas + 1
          ELSE /\ es_futura(fecha_hora_inicio(sesion), now)
               /\ EndRun
               /\ UNCHANGED jobstore
    /\ UNCHANGED <<now, up, tasks, api, sent, watched, done>>

ScheduleStart ==
    \E ok \in BOOLEAN :
        /\ AvisoInicio(ok)
        /\ UNCHANGED logged

ScheduleStartLogged ==
    \E ok \in BOOLEAN :
        /\ AvisoInicio(ok)
        /\ logged' = LineaDeAviso(ok, logged)

\* Lines 149-152: the loop is over, the count is logged.
Informe ==
    /\ up
    /\ pc = "loop"
    /\ queue = <<>>
    /\ EndRun
    /\ UNCHANGED <<now, up, jobstore, tasks, api, sent, watched, logged>>

Report ==
    /\ Informe
    /\ UNCHANGED done

-----------------------------------------------------------------------------
(* Specifications *)

\* The steps that are the same in every specification.
Entorno ==
    \/ Tick
    \/ Crash
    \/ main
    \/ start_command
    \/ Wakeup
    \/ CheckSession

Program ==
    \/ Entorno
    \/ ScheduleLead
    \/ ScheduleStart

Next ==
    \/ Program
    \/ RunCheck
    \/ Report
    \/ enviar_notificacion

Spec == Init /\ [][Next]_vars

\* The program with the send_message calls counted.
NextSent ==
    \/ Program
    \/ RunCheck
    \/ Report
    \/ enviar_notificacion_sent

SpecSent == Init /\ [][NextSent]_vars

\* The program with one send_message call kept.
NextLog ==
    \/ Program
    \/ RunCheck
    \/ Report
    \/ enviar_notificacion_log

SpecLog == Init /\ [][NextLog]_vars

\* The program with an Event Source that gives the same answer every time,
\* from the first start on the empty job store on.
InitFixed ==
    /\ InitProgram
    /\ api \in ApiResponses

RunCheckFixed == CheckForRaces(obtener_carreras_f1({api}))

ReportDone ==
    /\ Informe
    /\ done' = TRUE

NextFixed ==
    \/ Program
    \/ RunCheckFixed
    \/ ReportDone
    \/ enviar_notificacion

SpecFixed == InitFixed /\ [][NextFixed]_vars

\* The program with the wider Event Source.
RunCheckWide == CheckForRaces(RetornosWide)

NextWide ==
    \/ Program
    \/ RunCheckWide
    \/ Report
    \/ enviar_notificacion

SpecWide == Init /\ [][NextWide]_vars

\* The program with the line kept that the start of a run or a failed
\* add_job logged last.
NextLogged ==
    \/ Entorno
    \/ ScheduleLeadLogged
    \/ ScheduleStartLogged
    \/ CheckForRacesLogged
    \/ Report
    \/ enviar_notificacion

SpecLogged == Init /\ [][NextLogged]_vars

-----------------------------------------------------------------------------
(* Properties *)

\* The session the run is looking at.
Sesion == Head(queue)[2]

\* The values of the clock.
Times == { t \in 0..MaxTime : t % CHECK_INTERVAL_HOURS = 0 }

\* s1 is the session whose startAt never changes.
FixedTriggerIds == {LeadId("s1"), StartId("s1")}

\* C1: over any sequence of discovery runs (periodic or forced by /start),
\* schedule_session calls, wake-ups and restarts, a trigger of a session whose
\* startAt does not change is handed to send_message no more than once, and
\* once it has been sent no row of its id is in the job store or with the
\* executor again: no later run re-creates it.
C1_FiresOnce ==
    \A id \in FixedTriggerIds :
        /\ sent[id] <= 1
        /\ sent[id] = 1 => /\ RowCount(jobstore, id) = 0
                           /\ RowCount(tasks, id) = 0

\* Both triggers of s1 have been sent and a later run finds s1 in the answer.
C1_Witness ==
    /\ \A id \in FixedTriggerIds : sent[id] = 1
    /\ pc = "loop"
    /\ queue # <<>>
    /\ Sesion.id = "s1"

\* C2 (I1): in every reachable state the job store holds at most one row for
\* each trigger id.
C2_Uniqueness ==
    \A id \in TriggerIds : RowCount(jobstore, id) <= 1

\* schedule_session is called for a session whose LEAD trigger is stored and
\* is about to store it again.
C2_Witness ==
    /\ pc = "lead"
    /\ get_job(jobstore, LeadId(Sesion.id))
    /\ es_futura(fecha_aviso_previo(Sesion), now)

\* C3 (P1/I3): from every reachable job store, with both fire times still in
\* the future, programar_avisos_para_sesion applied twice to the same session
\* and event name gives the store that one application gives, and that store
\* holds exactly one row of each kind: the row with the id, the run date and
\* the text computed from the session.
C3_Idempotent ==
    \A r \in ApiRaces : \A k \in 1..Len(r.schedules) :
        LET sesion == r.schedules[k]
            evento == r.completeName
            once == programar_avisos_para_sesion(jobstore, sesion, evento, now, now)
            twice == programar_avisos_para_sesion(once, sesion, evento, now, now)
        IN (fecha_hora_inicio(sesion) - NOTIFICATION_LEAD_HOURS > now) =>
             /\ twice = once
             /\ RowCount(once, LeadId(sesion.id)) = 1
             /\ RowCount(once, StartId(sesion.id)) = 1
             /\ CopiesIn(LeadJob(sesion, evento), once) = 1
             /\ CopiesIn(StartJob(sesion, evento), once) = 1

\* schedule_session has stored both triggers of a session and both fire
\* times are still in the future: a second call would meet its own rows.
C3_Witness ==
    \E r \in ApiRaces : \E k \in 1..Len(r.schedules) :
        /\ fecha_aviso_previo(r.schedules[k]) > now
        /\ CopiesIn(LeadJob(r.schedules[k], r.completeName), jobstore) = 1
        /\ CopiesIn(StartJob(r.schedules[k], r.completeName), jobstore) = 1

\* C4 (I4/P2): a step never puts into the job store a trigger whose run date
\* is not after the current time; each half of schedule_session that ends
\* without an error stores its trigger when the fire time is after the
\* current time and leaves the store alone when it is not.
C4_NoPastScheduling ==
    [][ /\ \A j \in Triggers(jobstore') \ Triggers(jobstore) : j.run_date > now
        /\ (pc = "lead" /\ pc' = "start") =>
              IF fecha_hora_inicio(Sesion) - NOTIFICATION_LEAD_HOURS > now
              THEN CopiesIn(LeadJob(Sesion, Head(queue)[1]), jobstore') = 1
              ELSE jobstore' = jobstore
        /\ (pc = "start" /\ pc' = "loop") =>
              IF fecha_hora_inicio(Sesion) > now
              THEN CopiesIn(StartJob(Sesion, Head(queue)[1]), jobstore') = 1
              ELSE jobstore' = jobstore
      ]_vars

\* A call of schedule_session has returned and is counted, and the job store
\* holds no trigger: the session had started by then, neither kind was stored.
C4_Witness ==
    /\ pc = "loop"
    /\ nuevas = 1
    /\ Triggers(jobstore) = {}

C6_MonotonicDelivery ==
    watched # <<>> => watched[1].job.run_date <= now

\* A trigger has been sent later than its run date.
C6_Witness ==
    /\ watched # <<>>
    /\ watched[1].job.run_date < now

\* The sessions the runs over the fixed answer visit, in order.
Visitadas == Sesiones(FiltrarCategoria(api))

\* No session id is reported with two different start times.
NoSharedId(visit) ==
    \A m \in 1..Len(visit), n \in 1..Len(visit) :
        visit[m][2].id = visit[n][2].id => visit[m][2].startAt = visit[n][2].startAt

\* C7 (P6) as stated: every fetch returns the same list; once a run over it has
\* reached its report, no later run schedules a session: a run is then at
\* most visiting the list and its count of new sessions is zero.
C7_Original ==
    done => (pc \in {"idle", "loop"} /\ nuevas = 0)

\* C7 (P6), amended: every fetch returns the same list.  The triggers in the
\* job store are never more than two for each session of the list; and when no
\* session id occurs in the list with two different start times, then once a
\* run over it has reached its report, no later run schedules a session: a
\* run is then at most visiting the list and its count of new sessions is zero.
C7_Amended ==
    /\ Cardinality(Triggers(jobstore)) <= 2 * Len(Visitadas)
    /\ (done /\ NoSharedId(Visitadas)) => (pc \in {"idle", "loop"} /\ nuevas = 0)

\* A later run has visited every session of a list without a repeated id and
\* is about to report, while triggers of the first run are still stored.
C7_Witness ==
    /\ done
    /\ NoSharedId(Visitadas)
    /\ Len(Visitadas) > 0
    /\ pc = "loop"
    /\ queue = <<>>
    /\ \E id \in TriggerIds : get_job(jobstore, id)

\* C8: a trigger whose send_message call failed is in the job store no more
\* and is never with the executor again; the failing step leaves the process
\* running, the event loop free and the other claimed triggers in place.
C8_FailedSendIsFinal ==
    /\ [](watched # <<>> /\ ~watched[1].ok =>
            /\ CopiesIn(watched[1].job, jobstore) = 0
            /\ CopiesIn(watched[1].job, tasks) = 0)
    /\ [][ \A job \in BagToSet(tasks) :
             (watched = <<>> /\ watched' = <<[job |-> job, ok |-> FALSE]>>) =>
                /\ up'
                /\ pc' = "idle"
                /\ tasks' = tasks (-) SetToBag({job})
                /\ jobstore' = jobstore
         ]_vars

\* The send of the LEAD trigger of s1 failed and its START trigger has been
\* handed to the executor since.
C8_Witness ==
    /\ watched # <<>>
    /\ ~watched[1].ok
    /\ watched[1].job.id = LeadId("s1")
    /\ \E job \in BagToSet(tasks) : job.id = StartId("s1")

\* C9 (P5/I5): a crash and a restart leave the triggers of the job store as
\* they are: the same rows, the same answer of get_job for every trigger id
\* and the same due triggers at every time.
C9_RestartDurability ==
    [][ up' # up =>
          /\ \A j \in Triggers(jobstore) \cup Triggers(jobstore') :
                CopiesIn(j, jobstore') = CopiesIn(j, jobstore)
          /\ \A id \in TriggerIds : get_job(jobstore', id) = get_job(jobstore, id)
          /\ \A t \in Times :
                due(jobstore', t) \cap Triggers(jobstore')
                  = due(jobstore, t) \cap Triggers(jobstore)
      ]_vars

\* The process has been started twice and a trigger is due in the job store.
C9_Witness ==
    /\ up
    /\ RowCount(jobstore, PeriodicJob(now).id) = 2
    /\ due(jobstore, now) \cap Triggers(jobstore) # {}

Revisados ==
    { job \in due(jobstore, now) :
        /\ job.func = "check_for_races"
        /\ CopiesIn(job, jobstore') < CopiesIn(job, jobstore) }

\* C11: a run whose fetch fails ends at once, as a run that finds no
\* session does: the process stays up, no trigger row of the job store and
\* no task of the executor changes, and the periodic job that started the
\* run is back in the job store with its next run one interval ahead.
C11_FetchFailureContained ==
    [][ (Revisados # {} /\ logged' = "api_error") =>
          /\ up'
          /\ pc' = "idle"
          /\ queue' = <<>>
          /\ tasks' = tasks
          /\ \A j \in Triggers(jobstore) \cup Triggers(jobstore') :
                CopiesIn(j, jobstore') = CopiesIn(j, jobstore)
          /\ RowCount(jobstore', PeriodicJob(now).id)
                = RowCount(jobstore, PeriodicJob(now).id)
          /\ \A job \in Revisados :
                job.trigger = "interval" =>
                  \E j \in Rows(jobstore') :
                      /\ j.id = job.id
                      /\ j.run_date > now
                      /\ j.run_date <= now + timedelta(CHECK_INTERVAL_HOURS)
                      /\ CopiesIn(j, jobstore') > CopiesIn(j, jobstore)
      ]_vars

\* A fetch has failed while triggers were waiting in the job store, and the
\* periodic job waits for its next run.
C11_Witness ==
    /\ logged = "api_error"
    /\ up
    /\ pc = "idle"
    /\ Triggers(jobstore) # {}
    /\ \A j \in Rows(jobstore) : j.func = "check_for_races" => j.run_date > now

\* Session k of the queue is one the run would schedule: it has an id and a
\* start in the future, and no START row of its id is in the store after
\* the step.
PorProgramar(k) ==
    LET sesion == queue[k][2]
    IN /\ sesion.startAt # <<>>
       /\ sesion.id # ""
       /\ es_futura(fecha_hora_inicio(sesion), now)
       /\ \A j \in Rows(jobstore') : j.id # StartId(sesion.id)

\* C12: while the process is up, no step of a run ends the run when a
\* session after the one it is at is still to be scheduled: an error at
\* one session does not keep the run from the others.
C12_Isolation ==
    [][ (up /\ up' /\ pc # "idle"
            /\ \E k \in 2..Len(queue) : PorProgramar(k))
          => pc' # "idle"
      ]_vars

\* The rows a single run over the fixed answer computes.
FilasDeUnaPasada ==
    UNION { {LeadJob(Visitadas[m][2], Visitadas[m][1]),
             StartJob(Visitadas[m][2], Visitadas[m][1])} : m \in 1..Len(Visitadas) }

\* What is missing in the store at a session of the list that is still ahead.
SinPerder(m) ==
    LET sesion == Visitadas[m][2]
        nombre_evento == Visitadas[m][1]
    IN /\ es_futura(fecha_hora_inicio(sesion), now) =>
            \E j \in Triggers(jobstore) : j.id = StartId(sesion.id)
       /\ es_futura(fecha_aviso_previo(sesion), now) =>
            CopiesIn(LeadJob(sesion, nombre_evento), jobstore) = 1

DejaSesion ==
    /\ up /\ up'
    /\ now' = now
    /\ pc \in {"loop", "start"}
    /\ queue # <<>>
    /\ pc' = "loop"
    /\ queue' = Tail(queue)
    /\ Sesion.startAt # <<>>
    /\ Sesion.id # ""

\* C14 as stated: when a run that goes on without error leaves a session
\* that was in the future when line 141 examined it (it is in the future
\* now, or the run has called programar_avisos_para_sesion for it), the
\* job store holds a START row of its id whose run date is its startAt.
C14_Original ==
    [][ (DejaSesion /\ (pc = "start" \/ es_futura(fecha_hora_inicio(Sesion), now))) =>
          \E j \in Triggers(jobstore') :
              /\ j.id = StartId(Sesion.id)
              /\ j.run_date = fecha_hora_inicio(Sesion)
      ]_vars

\* C14, amended: when a run that goes on without error leaves a session that
\* is still in the future, the job store holds a START row of its id, and
\* when the run itself has scheduled the session that row is the one
\* computed from it (run date = startAt); the first half of
\* programar_avisos_para_sesion leaves the LEAD row in the store whenever the
\* lead time is still in the future; and no step of a run takes a trigger
\* row out of the store other than to put the row of the same id in.
C14_Postcondition ==
    [][ /\ (DejaSesion /\ es_futura(fecha_hora_inicio(Sesion), now)) =>
              /\ \E j \in Triggers(jobstore') : j.id = StartId(Sesion.id)
              /\ pc = "start" =>
                    CopiesIn(StartJob(Sesion, Head(queue)[1]), jobstore') = 1
        /\ (up /\ pc = "lead" /\ pc' = "start"
               /\ es_futura(fecha_aviso_previo(Sesion), now)) =>
              CopiesIn(LeadJob(Sesion, Head(queue)[1]), jobstore') = 1
        /\ (up /\ up' /\ pc # "idle") =>
              \A j \in Triggers(jobstore) :
                  \E j2 \in Triggers(jobstore') : j2.id = j.id
      ]_vars

\* A run has scheduled two sessions, both rows of each are stored, and it is
\* about to report.
C14_Witness ==
    /\ pc = "loop"
    /\ queue = <<>>
    /\ nuevas = 2
    /\ Cardinality(Triggers(jobstore)) = 4

\* The job store holds a START row of the id of the session the run is at.
HayInicio ==
    \E j \in Triggers(jobstore) : j.id = StartId(Sesion.id)

\* C15: when the run is at a session whose START row is in the job store,
\* its step goes on to the next session: programar_avisos_para_sesion is not
\* entered, nothing is counted and no row of the job store changes, whatever
\* name and startAt the fetched session has and whether or not its LEAD row
\* is stored.
C15_SkipWhenStartExists ==
    [][ (up /\ up' /\ now' = now /\ pc = "loop" /\ queue # <<>>
            /\ Sesion.startAt # <<>> /\ HayInicio) =>
          /\ pc' = "loop"
          /\ queue' = Tail(queue)
          /\ nuevas' = nuevas
          /\ jobstore' = jobstore
      ]_vars

\* The run is at a future session whose START row was made from another
\* startAt and name, and whose LEAD row, though its time is ahead, is absent.
C15_Witness ==
    /\ up
    /\ pc = "loop"
    /\ queue # <<>>
    /\ HayInicio
    /\ CopiesIn(StartJob(Sesion, Head(queue)[1]), jobstore) = 0
    /\ es_futura(fecha_aviso_previo(Sesion), now)
    /\ \A j \in Triggers(jobstore) : j.id # LeadId(Sesion.id)

\* C16: the row of a waiting trigger is frozen: while a row of a trigger id
\* is in the job store before and after a step, its run date and its text
\* are the same.
C16_Frozen ==
    [][ \A j \in Triggers(jobstore) : \A j2 \in Triggers(jobstore') :
            j2.id = j.id => (j2.run_date = j.run_date /\ j2.mensaje = j.mensaje)
      ]_vars

\* C17: the step in which add_job raises, for the LEAD or the START row,
\* ends the run without the session being counted or reported, leaves the
\* job store as it was (no partial row, at most one row per trigger id), and
\* leaves no START row of the session, so that the check of lines 141-144
\* of the next run schedules the session again while its start is ahead.
C17_StoreFailure ==
    [][ (logged' = "store_error" /\ logged # "store_error") =>
          /\ up'
          /\ pc' = "idle"
          /\ nuevas' = 0
          /\ jobstore' = jobstore
          /\ \A id \in TriggerIds : RowCount(jobstore', id) <= 1
          /\ \A j \in Rows(jobstore') : j.id # StartId(Sesion.id)
      ]_vars

\* add_job has raised for a START row: the run is over, and the LEAD row of
\* a session waits in the job store without its START row.
C17_Witness ==
    /\ logged = "store_error"
    /\ pc = "idle"
    /\ \E id \in SessionIds :
          /\ \E j \in Triggers(jobstore) : j.id = LeadId(id)
          /\ \A j \in Triggers(jobstore) : j.id # StartId(id)

\* C18: the job store holds the rows of the waiting triggers and nothing
\* else: every row is a notification job, one per trigger id.
C18_TriggersOnly ==
    /\ Rows(jobstore) = Triggers(jobstore)
    /\ \A j \in Rows(jobstore) : CopiesIn(j, jobstore) = 1
    /\ \A id \in TriggerIds : RowCount(jobstore, id) <= 1

\* The rows of a trigger id that wait in the job store or with the executor.
Pendientes(store, ts, id) == RowCount(store, id) + RowCount(ts, id)

\* C19, the part a finite run decides: a trigger that is waiting goes away
\* only by being fired: every step that takes a row of a trigger id from the
\* job store and the executor is a send_message call for that id.
C19_FiredBeforeGone ==
    [][ \A id \in TriggerIds :
            Pendientes(jobstore', tasks', id) < Pendientes(jobstore, tasks, id)
              => sent'[id] = sent[id] + 1
      ]_vars

\* C20: between the runs, a session whose LEAD row waits for a time still
\* ahead has its START row in the job store too.
C20_LeadImpliesStart ==
    pc = "idle" =>
      \A id \in SessionIds :
         (\E j \in Triggers(jobstore) : j.id = LeadId(id) /\ j.run_date > now)
           => \E j \in Triggers(jobstore) : j.id = StartId(id)

====
